---------------------------- MODULE Spec2Model ----------------------------
(***************************************************************************)
(* A model of trezor_agent/gpg/agent.py: the Assuan-style line protocol    *)
(* spoken with gpg-agent.  Three parts share the byte-level codec:         *)
(*   - the codec itself (_unescape, _parse, _serialize_point, ...),        *)
(*   - the client handshake `sign`,                                        *)
(*   - the `server` accept/dispatch loop.                                  *)
(* The source is Python 2: str is a byte string.  A byte string is a       *)
(* sequence of integers 0..255 here.  `assert` statements are modelled as  *)
(* enforced: a failing assert raises and ends the function.                *)
(***************************************************************************)
EXTENDS Integers, Sequences, FiniteSets, TLC

(***************************************************************************)
(* Bounds of the model.                                                    *)
(***************************************************************************)
\* longest run of special bytes put after the 0x04 marker of a test point
MaxEdge == 2
\* longest byte string given to escape/unescape
MaxLen == 3

(***************************************************************************)
(* Byte values the source names as character literals.                     *)
(***************************************************************************)
PCT == 37
LF == 10
CR == 13
LPAREN == 40
RPAREN == 41
COLON == 58
SPACE == 32
POINT_MARKER == 4
POINT_LEN == 65

\* '(5:value'
value_open ==
    <<40, 53, 58, 118, 97, 108, 117, 101>>
\* 'value'
value ==
    <<118, 97, 108, 117, 101>>
\* '0123456789ABCDEF'
HEXDIGITS ==
    <<48, 49, 50, 51, 52, 53, 54, 55, 56, 57, 65, 66, 67, 68, 69, 70>>

(***************************************************************************)
(* Python's sequence primitives.                                           *)
(***************************************************************************)
Min(a, b) == IF a < b THEN a ELSE b
Max(a, b) == IF a > b THEN a ELSE b

\* s[:n] for any integer n (a negative n counts from the end)
SliceTo(s, n) ==
    LET k == IF n >= 0 THEN Min(n, Len(s)) ELSE Max(Len(s) + n, 0)
    IN  SubSeq(s, 1, k)

\* s[n:] for any integer n
SliceFrom(s, n) ==
    LET k == IF n >= 0 THEN Min(n, Len(s)) ELSE Max(Len(s) + n, 0)
    IN  SubSeq(s, k + 1, Len(s))

\* s.startswith(p)
startswith(s, p) == Len(s) >= Len(p) /\ SubSeq(s, 1, Len(p)) = p

\* s.find(c) + 1: the index of the first c in s, 0 when there is none
Find(s, c) ==
    LET hits == {i \in 1..Len(s) : s[i] = c}
    IN  IF hits = {} THEN 0
        ELSE CHOOSE i \in hits : \A j \in hits : i <= j

\* s.split(c, 1): the parts before and after the first c; `found` is FALSE
\* when the list has one element only (the unpacking into two names raises)
split1(s, c) ==
    LET i == Find(s, c)
    IN  IF i = 0
        THEN [found |-> FALSE, head |-> s, tail |-> <<>>]
        ELSE [found |-> TRUE, head |-> SubSeq(s, 1, i - 1),
              tail |-> SubSeq(s, i + 1, Len(s))]

IsSpace(c) == c \in {32, 9, 10, 11, 12, 13}

RECURSIVE LStrip(_)
LStrip(s) == IF s # <<>> /\ IsSpace(s[1]) THEN LStrip(Tail(s)) ELSE s

RECURSIVE RStrip(_)
RStrip(s) ==
    IF s # <<>> /\ IsSpace(s[Len(s)])
    THEN RStrip(SubSeq(s, 1, Len(s) - 1))
    ELSE s

\* s.strip()
strip(s) == RStrip(LStrip(s))

\* the value of a digit character, 99 when it is none
DigitVal(c) ==
    IF c \in 48..57 THEN c - 48
    ELSE IF c \in 65..70 THEN c - 55
    ELSE IF c \in 97..102 THEN c - 87
    ELSE 99

RECURSIVE DigitsVal(_, _, _)
DigitsVal(s, base, acc) ==
    IF s = <<>> THEN acc
    ELSE DigitsVal(Tail(s), base, acc * base + DigitVal(s[1]))

\* int(s, base) for base 10 and 16: surrounding whitespace is dropped, one
\* sign is allowed, base 16 allows a 0x prefix; anything else raises
\* ValueError (ok = FALSE)
py_int(s, base) ==
    LET t == strip(s)
        signed == t # <<>> /\ t[1] \in {43, 45}
        neg == t # <<>> /\ t[1] = 45
        u == IF signed THEN Tail(t) ELSE t
        d == IF base = 16 /\ Len(u) >= 2 /\ u[1] = 48 /\ u[2] \in {120, 88}
             THEN SubSeq(u, 3, Len(u))
             ELSE u
        valid == d # <<>> /\ \A i \in 1..Len(d) : DigitVal(d[i]) < base
    IN  IF valid
        THEN [ok |-> TRUE,
              val |-> (IF neg THEN -1 ELSE 1) * DigitsVal(d, base, 0)]
        ELSE [ok |-> FALSE, val |-> 0]

\* '{}'.format(n) for n >= 0: the decimal digits of n
RECURSIVE Dec(_)
Dec(n) ==
    IF n < 10 THEN <<48 + n>>
    ELSE Append(Dec(n \div 10), 48 + (n % 10))

\* data.replace(c, rep) for a single byte c: every c becomes rep, the other
\* bytes stay (computed by halves)
RECURSIVE replace(_, _, _)
replace(data, c, rep) ==
    IF data = <<>> THEN <<>>
    ELSE IF Len(data) = 1 THEN (IF data[1] = c THEN rep ELSE data)
    ELSE LET h == Len(data) \div 2
         IN  replace(SubSeq(data, 1, h), c, rep)
             \o replace(SubSeq(data, h + 1, Len(data)), c, rep)

\* a byte string of n bytes b
Fill(b, n) == [i \in 1..n |-> b]

\* the sequences over S of length 0..n
SeqsUpTo(S, n) == UNION { [1..k -> S] : k \in 0..n }

(***************************************************************************)
(* The codec.                                                              *)
(***************************************************************************)
\* binascii.hexlify(data).upper(): two uppercase hex digits per byte
_hex(data) ==
    [i \in 1..(2 * Len(data)) |->
        IF i % 2 = 1
        THEN HEXDIGITS[(data[(i + 1) \div 2] \div 16) + 1]
        ELSE HEXDIGITS[(data[i \div 2] % 16) + 1]]

\* '%{:02X}'.format(ord(c))
PctCode(c) == <<PCT>> \o _hex(<<c>>)

\* a replacement order that escapes the line feed before the percent sign
EscapedBytes_LfFirst == <<LF, PCT, CR>>

\* the bytes _serialize_point escapes, in the order it replaces them
EscapedBytes == <<PCT, LF, CR>>

\* for c in ['%', '\n', '\r']: data = data.replace(c, '%XX')
RECURSIVE EscapeFrom(_, _)
EscapeFrom(data, i) ==
    IF i > Len(EscapedBytes) THEN data
    ELSE EscapeFrom(replace(data, EscapedBytes[i], PctCode(EscapedBytes[i])),
                    i + 1)

escape(data) == EscapeFrom(data, 1)

\* the width of the slice s[i+1:i+3] that _unescape reads after a '%'
hex_width == 2

\* one pass of the body of _unescape's while loop on [s, i, ok]; i is the
\* 0-based index, ok = FALSE once int() or the bytearray assignment has
\* raised ValueError.  A state whose loop is over is left as it is.
UnescapeStep(st) ==
    IF ~st.ok \/ st.i >= Len(st.s) THEN st
    ELSE IF st.s[st.i + 1] = PCT
    THEN LET hex_bytes ==
                 SubSeq(st.s, st.i + 2, Min(st.i + 1 + hex_width, Len(st.s)))
             v == py_int(hex_bytes, 16)
         IN  IF v.ok /\ v.val \in 0..255
             THEN [s |-> SubSeq(st.s, 1, st.i) \o <<v.val>>
                         \o SubSeq(st.s, st.i + 4, Len(st.s)),
                   i |-> st.i + 1, ok |-> TRUE]
             ELSE [st EXCEPT !.ok = FALSE]
    ELSE [st EXCEPT !.i = @ + 1]

\* n passes of the loop body, computed by halves.  The loop ends after at
\* most len(s) passes: each pass moves i on by one and s never grows.
RECURSIVE UnescapePasses(_, _)
UnescapePasses(st, n) ==
    IF ~st.ok \/ st.i >= Len(st.s) \/ n <= 0 THEN st
    ELSE IF n = 1 THEN UnescapeStep(st)
    ELSE UnescapePasses(UnescapePasses(st, n \div 2), n - (n \div 2))

_unescape(s) ==
    LET st == UnescapePasses([s |-> s, i |-> 0, ok |-> TRUE], Len(s))
    IN  [ok |-> st.ok, val |-> IF st.ok THEN st.s ELSE <<>>]

\* A parsed S-expression: a str (atom) or a list of parsed values whose
\* first element is the atom naming the list.
Atom(b) == [tag |-> "atom", v |-> b]
List(vs) == [tag |-> "list", v |-> vs]
IsAtom(x) == x.tag = "atom"
IsList(x) == x.tag = "list"
ParseFail == [ok |-> FALSE, val |-> Atom(<<>>), rest |-> <<>>]

\* _parse_term returning a shorter atom than declared when the buffer is
\* exhausted is what s[:size] does; a negative size slices from the end
_parse_term(s) ==
    LET p == split1(s, COLON)
        size == py_int(p.head, 10)
    IN  IF ~p.found \/ ~size.ok THEN ParseFail
        ELSE [ok |-> TRUE, val |-> Atom(SliceTo(p.tail, size.val)),
              rest |-> SliceFrom(p.tail, size.val)]

RECURSIVE _parse(_), ParseValues(_, _)
_parse(s) ==
    IF s = <<>> THEN ParseFail
    ELSE IF s[1] = LPAREN
    THEN LET name == _parse_term(Tail(s))
         IN  IF name.ok THEN ParseValues(<<name.val>>, name.rest)
             ELSE ParseFail
    ELSE _parse_term(s)

\* the end of the buffer ends the list
RECURSIVE ParseValues_EofEnds(_, _)
ParseValues_EofEnds(values, s) ==
    IF s = <<>> THEN [ok |-> TRUE, val |-> List(values), rest |-> <<>>]
    ELSE IF s[1] = RPAREN
    THEN [ok |-> TRUE, val |-> List(values), rest |-> Tail(s)]
    ELSE LET r == _parse(s)
         IN  IF r.ok THEN ParseValues_EofEnds(Append(values, r.val), r.rest)
             ELSE ParseFail

\* the while s[0] != ')' loop of _parse
ParseValues(values, s) ==
    IF s = <<>> THEN ParseFail
    ELSE IF s[1] = RPAREN
    THEN [ok |-> TRUE, val |-> List(values), rest |-> Tail(s)]
    ELSE LET r == _parse(s)
         IN  IF r.ok THEN ParseValues(Append(values, r.val), r.rest)
             ELSE ParseFail

\* the length written is that of the escaped bytes
_serialize_point_EscapedLen(data) ==
    value_open \o Dec(Len(escape(data))) \o <<COLON>> \o escape(data)
    \o <<RPAREN>>

\* lines 144-149: the length and the point are joined, then escaped
_serialize_point(data) ==
    value_open \o escape(Dec(Len(data)) \o <<COLON>> \o data) \o <<RPAREN>>

(***************************************************************************)
(* State.                                                                  *)
(***************************************************************************)
\* the server
VARIABLES
    pc,        \* where server() is: "accept" (line 168), "recvline" (171),
               \* "inquire" (183), "signing" (192), "crashed" (an exception
               \* left server())
    inbound,   \* bytes the peer has written to the accepted connection and
               \* the server has not consumed
    peer,      \* the peer's end of the accepted connection: "none", "open",
               \* "closed"
    pending,   \* a connection waits in the listen backlog
    sockOpen,  \* the socket object s of the accepted connection is open
    log,       \* the server's calls so far: [op, at, data], at = source line
    version,   \* server's version parameter
    agent_id,  \* server's agent_id parameter
    nconn,     \* connections made by peers
    nsent      \* chunks written by peers

\* the client
VARIABLES
    spc,       \* where sign() is: "idle" (not begun), "send" and "recv" (in
               \* the step-th _communicate), "data" (line 124), "done"
               \* (returned), "failed" (raised)
    step,      \* the handshake command in progress, 1..6
    cin,       \* bytes the agent has written and sign has not consumed
    agent,     \* the agent's end of the connection: "open", "closed"
    clog,      \* sign's calls so far: [op, at, data], at = source line
    sret,      \* what sign returned: [ok, val]
    digest,    \* sign's digest argument
    keygrip,   \* sign's keygrip argument
    ttyname    \* what the tty command printed

\* the codec on its own
VARIABLES
    kind,      \* "point" or "bytes": what inp is
    inp,       \* the input
    wire,      \* the reply for the point / the escaped byte string
    unesc,     \* what _unescape returned for it
    parsed,    \* what _parse returned for that
    stage      \* "input", "wire", "unescaped", "parsed"

serverVars ==
    <<pc, inbound, peer, pending, sockOpen, log, version, agent_id, nconn,
      nsent>>

clientVars ==
    <<spc, step, cin, agent, clog, sret, digest, keygrip, ttyname>>

codecVars == <<kind, inp, wire, unesc, parsed, stage>>

vars == <<serverVars, clientVars, codecVars>>

(***************************************************************************)
(* Byte strings of the protocol.                                           *)
(***************************************************************************)
\* 'OK'
OK ==
    <<79, 75>>
\* 'OK\n'
OK_LF ==
    <<79, 75, 10>>
\* 'D'
D ==
    <<68>>
\* 'D '
D_SP ==
    <<68, 32>>
\* 'GETINFO version'
GETINFO_version ==
    <<71, 69, 84, 73, 78, 70, 79, 32, 118, 101, 114, 115, 105, 111, 110>>
\* 'AGENT_ID'
AGENT_ID ==
    <<65, 71, 69, 78, 84, 95, 73, 68>>
\* 'PKDECRYPT'
PKDECRYPT ==
    <<80, 75, 68, 69, 67, 82, 89, 80, 84>>
\* a bare 'OK\n'
greeting_BareOk == <<79, 75, 10>>

\* 'OK pleased to see you\n'
greeting ==
    <<79, 75, 32, 112, 108, 101, 97, 115, 101, 100, 32, 116, 111, 32, 115,
      101, 101, 32, 121, 111, 117, 10>>
\* 'S INQUIRE_MAXLEN 4096\nINQUIRE CIPHERTEXT\n'
inquire ==
    <<83, 32, 73, 78, 81, 85, 73, 82, 69, 95, 77, 65, 88, 76, 69, 78, 32, 52,
      48, 57, 54, 10, 73, 78, 81, 85, 73, 82, 69, 32, 67, 73, 80, 72, 69, 82,
      84, 69, 88, 84, 10>>
\* '2.1.11', the default of server's version parameter
default_version ==
    <<50, 46, 49, 46, 49, 49>>
\* 'TREZOR-GPG', the default of server's agent_id parameter
default_agent_id ==
    <<84, 82, 69, 90, 79, 82, 45, 71, 80, 71>>
\* 'e'
key_e ==
    <<101>>
\* 's'
key_s ==
    <<115>>
\* 'r'
key_r ==
    <<114>>

(***************************************************************************)
(* The server.                                                             *)
(***************************************************************************)
Event(op, at, data) == [op |-> op, at |-> at, data |-> data]

\* what _recvline returns when the stream holds a line feed: the bytes before
\* the first line feed; the bytes after it stay in the stream
_recvline(stream) == split1(stream, LF)

\* AGENT_ID answered with the version
reply_for_AgentIdAsVersion(line, ver, aid) ==
    IF line = GETINFO_version \/ line = AGENT_ID
    THEN D_SP \o ver \o <<LF>> \o OK_LF
    ELSE OK_LF

\* the reply the dispatch loop computes for a line (lines 176-180)
reply_for(line, ver, aid) ==
    LET r0 == OK_LF
        r1 == IF line = GETINFO_version
              THEN D_SP \o ver \o <<LF>> \o OK_LF ELSE r0
        r2 == IF line = AGENT_ID
              THEN D_SP \o aid \o <<LF>> \o OK_LF ELSE r1
    IN  r2

\* one element of the sequence given to dict(): a two-element list, or a
\* two-character str whose characters become key and value
PairOf(item) ==
    IF IsList(item)
    THEN IF Len(item.v) = 2
         THEN [ok |-> TRUE, key |-> item.v[1].v, val |-> item.v[2]]
         ELSE [ok |-> FALSE, key |-> <<>>, val |-> Atom(<<>>)]
    ELSE IF Len(item.v) = 2
         THEN [ok |-> TRUE, key |-> <<item.v[1]>>, val |-> Atom(<<item.v[2]>>)]
         ELSE [ok |-> FALSE, key |-> <<>>, val |-> Atom(<<>>)]

\* the field s looked up instead of e
pubkey_field_S == key_s

\* the key the server looks up in the parsed ciphertext
pubkey_field == key_e

\* dict(exp[1][1:])['e']: ok = FALSE when indexing, dict() or the lookup
\* raises; the last pair of a repeated key wins
pubkey_of(exp) ==
    IF ~IsList(exp) \/ Len(exp.v) < 2 THEN [ok |-> FALSE, val |-> Atom(<<>>)]
    ELSE IF ~IsList(exp.v[2]) THEN [ok |-> FALSE, val |-> Atom(<<>>)]
    ELSE LET items == Tail(exp.v[2].v)
             hits == {i \in 1..Len(items) :
                        PairOf(items[i]).ok
                        /\ PairOf(items[i]).key = pubkey_field}
         IN  IF (\E i \in 1..Len(items) : ~PairOf(items[i]).ok) \/ hits = {}
             THEN [ok |-> FALSE, val |-> Atom(<<>>)]
             ELSE [ok |-> TRUE,
                   val |-> PairOf(items[CHOOSE i \in hits :
                                          \A j \in hits : j <= i]).val]

\* line 189, for what _parse returned
challenge_parsed(e) ==
    IF ~e.ok THEN [ok |-> FALSE, val |-> Atom(<<>>)] ELSE pubkey_of(e.val)

\* line 187, for what _unescape returned
challenge_unescaped(u) ==
    IF ~u.ok THEN [ok |-> FALSE, val |-> Atom(<<>>)]
    ELSE challenge_parsed(_parse(u.val))

\* lines 185-187, for the line split at its first space
challenge_split(p) ==
    IF ~p.found \/ p.head # D THEN [ok |-> FALSE, val |-> Atom(<<>>)]
    ELSE challenge_unescaped(_unescape(p.tail))

\* lines 185-189: from the line read after the inquiry to the hidden
\* challenge; ok = FALSE when a statement on the way raises
challenge_of(line) == challenge_split(split1(line, SPACE))

\* lines 198-201: the reply for the point the capability returned
pkdecrypt_reply(q) == D_SP \o _serialize_point(q) \o <<LF>> \o OK_LF

\* the length of the point is not checked
point_ok_AnyLength(q) == SubSeq(q, 1, 1) = <<POINT_MARKER>>

\* lines 198-199
point_ok(q) == Len(q) = POINT_LEN /\ SubSeq(q, 1, 1) = <<POINT_MARKER>>

(***************************************************************************)
(* The server: its environment.  A peer connects, writes lines (or a       *)
(* fragment of one) and disconnects; the signing capability returns a      *)
(* byte string or raises.                                                  *)
(***************************************************************************)
\* connections peers make
MaxConns == 2
\* chunks peers write
MaxSends == 3

\* 'FOO BAR'
FOO_BAR ==
    <<70, 79, 79, 32, 66, 65, 82>>
\* 'GETINFO', a line the peer has not finished
fragment ==
    <<71, 69, 84, 73, 78, 70, 79>>
\* '(7:enc-val(4:ecdh(1:s1:x)(1:e'
enc_val_open ==
    <<40, 55, 58, 101, 110, 99, 45, 118, 97, 108, 40, 52, 58, 101, 99, 100,
      104, 40, 49, 58, 115, 49, 58, 120, 41, 40, 49, 58, 101>>

\* the canonical form of an atom: '<len>:<bytes>'
SAtom(b) == Dec(Len(b)) \o <<COLON>> \o b

\* the ciphertext a gpg client sends: (enc-val (ecdh (s x) (e <e>)))
CipherText(e) == enc_val_open \o SAtom(e) \o <<RPAREN, RPAREN, RPAREN>>

\* the data line carrying it, escaped for the wire
CipherLine(e) == D_SP \o escape(CipherText(e))

\* public values a peer asks about
Challenges == {<<4, 0>>, <<PCT, LF>>}

\* 'xx' after a complete ciphertext
TrailingLine == CipherLine(<<4, 0>>) \o <<120, 120>>

\* 'D', 'X 1:a', 'D (1:a)', 'D (1:a(1:b2:e!))'
OddLines ==
    { <<68>>,
      <<88, 32, 49, 58, 97>>,
      <<68, 32, 40, 49, 58, 97, 41>>,
      <<68, 32, 40, 49, 58, 97, 40, 49, 58, 98, 50, 58, 101, 33, 41, 41>> }

PeerLines ==
    { <<>>, GETINFO_version, AGENT_ID, FOO_BAR, PKDECRYPT, TrailingLine }
    \cup { CipherLine(e) : e \in Challenges }
    \cup OddLines

PeerChunks == { l \o <<LF>> : l \in PeerLines } \cup { fragment }

\* what sign_identity may hand back: a point, a short point, a compressed
\* point, or an exception (ok = FALSE)
SignResults ==
    { [ok |-> TRUE, sig |-> <<POINT_MARKER>> \o Fill(0, POINT_LEN - 1)],
      [ok |-> TRUE,
       sig |-> <<POINT_MARKER, PCT, LF, CR>> \o Fill(RPAREN, POINT_LEN - 4)],
      [ok |-> TRUE, sig |-> <<POINT_MARKER>> \o Fill(0, POINT_LEN - 2)],
      [ok |-> TRUE, sig |-> <<2>> \o Fill(0, POINT_LEN - 1)],
      [ok |-> FALSE, sig |-> <<>>] }

Versions == { default_version, <<50, 46, 50>> }
AgentIds == { default_agent_id, <<88>> }

(***************************************************************************)
(* The server: actions.                                                    *)
(***************************************************************************)
ServerInit ==
    /\ pc = "accept"
    /\ inbound = <<>>
    /\ peer = "none"
    /\ pending = FALSE
    /\ sockOpen = FALSE
    /\ log = <<>>
    /\ version \in Versions
    /\ agent_id \in AgentIds
    /\ nconn = 0
    /\ nsent = 0

\* a peer connects to the listening socket
PeerConnect ==
    /\ ~pending
    /\ pc # "crashed"
    /\ nconn < MaxConns
    /\ pending' = TRUE
    /\ nconn' = nconn + 1
    /\ UNCHANGED <<pc, inbound, peer, sockOpen, log, version, agent_id, nsent>>
    /\ UNCHANGED <<clientVars, codecVars>>

\* the peer of the accepted connection writes
PeerSend(chunk) ==
    /\ peer = "open"
    /\ pc # "crashed"
    /\ Find(inbound, LF) = 0
    /\ nsent < MaxSends
    /\ inbound' = inbound \o chunk
    /\ nsent' = nsent + 1
    /\ UNCHANGED <<pc, peer, pending, sockOpen, log, version, agent_id, nconn>>
    /\ UNCHANGED <<clientVars, codecVars>>

\* the peer of the accepted connection disconnects
PeerClose ==
    /\ peer = "open"
    /\ peer' = "closed"
    /\ UNCHANGED <<pc, inbound, pending, sockOpen, log, version, agent_id,
                   nconn, nsent>>
    /\ UNCHANGED <<clientVars, codecVars>>

\* lines 168-169: accept, which rebinds s, and the greeting
Accept ==
    /\ pc = "accept"
    /\ pending
    /\ pending' = FALSE
    /\ peer' = "open"
    /\ inbound' = <<>>
    /\ sockOpen' = TRUE
    /\ log' = log \o <<Event("accept", 168, <<>>), Event("send", 169, greeting)>>
    /\ pc' = "recvline"
    /\ UNCHANGED <<version, agent_id, nconn, nsent>>
    /\ UNCHANGED <<clientVars, codecVars>>

\* lines 171-182 and 206: a line is read in the dispatch loop and handled
ReadLine ==
    /\ pc = "recvline"
    /\ _recvline(inbound).found
    /\ LET line == _recvline(inbound).head
       IN  /\ inbound' = _recvline(inbound).tail
           /\ IF line = <<>>
              THEN /\ log' = Append(log, Event("recv", 171, line))
                   /\ pc' = "accept"
                   /\ UNCHANGED sockOpen
              ELSE IF line = PKDECRYPT
              THEN /\ log' = log \o <<Event("recv", 171, line),
                                      Event("send", 182, inquire)>>
                   /\ pc' = "inquire"
                   /\ UNCHANGED sockOpen
              ELSE /\ log' = log \o <<Event("recv", 171, line),
                                      Event("send", 206,
                                            reply_for(line, version, agent_id))>>
                   /\ pc' = "recvline"
                   /\ UNCHANGED sockOpen
    /\ UNCHANGED <<peer, pending, version, agent_id, nconn, nsent>>
    /\ UNCHANGED <<clientVars, codecVars>>

\* lines 38-42 once the peer has disconnected: recv returns '' for ever,
\* '' is not '\n', and the loop of _recvline goes on
ReadEOF ==
    /\ pc \in {"recvline", "inquire"}
    /\ ~_recvline(inbound).found
    /\ peer = "closed"
    /\ UNCHANGED <<serverVars, clientVars, codecVars>>

\* lines 183-196: the line after the inquiry is read and parsed, and the
\* capability is invoked with the value of e
ReadCiphertext ==
    /\ pc = "inquire"
    /\ _recvline(inbound).found
    /\ LET line == _recvline(inbound).head
           c == challenge_of(line)
       IN  /\ inbound' = _recvline(inbound).tail
           /\ IF c.ok
              THEN /\ log' = log \o <<Event("recv", 183, line),
                                      Event("sign", 192, c.val)>>
                   /\ pc' = "signing"
                   /\ UNCHANGED sockOpen
              ELSE /\ log' = Append(log, Event("recv", 183, line))
                   /\ pc' = "crashed"
                   /\ sockOpen' = FALSE
    /\ UNCHANGED <<peer, pending, version, agent_id, nconn, nsent>>
    /\ UNCHANGED <<clientVars, codecVars>>

\* no break after the PKDECRYPT reply
after_pkdecrypt_reply_NoBreak == "recvline"

\* where the loop goes after the PKDECRYPT reply (the break of line 204)
after_pkdecrypt_reply == "accept"

\* no break: the reply of line 206 follows the PKDECRYPT reply
SignReturn_FallThrough(result) ==
    /\ pc = "signing"
    /\ IF result.ok /\ point_ok(result.sig)
       THEN /\ log' = log \o <<Event("send", 203,
                                      pkdecrypt_reply(result.sig)),
                               Event("send", 206, OK_LF)>>
            /\ pc' = "recvline"
            /\ UNCHANGED sockOpen
       ELSE /\ pc' = "crashed"
            /\ sockOpen' = FALSE
            /\ UNCHANGED log
    /\ UNCHANGED <<inbound, peer, pending, version, agent_id, nconn, nsent>>
    /\ UNCHANGED <<clientVars, codecVars>>

\* lines 197-204: the capability returns, the point is checked, the reply is
\* sent and the loop is left
SignReturn(result) ==
    /\ pc = "signing"
    /\ IF result.ok /\ point_ok(result.sig)
       THEN /\ log' = Append(log, Event("send", 203,
                                        pkdecrypt_reply(result.sig)))
            /\ pc' = after_pkdecrypt_reply
            /\ UNCHANGED sockOpen
       ELSE /\ pc' = "crashed"
            /\ sockOpen' = FALSE
            /\ UNCHANGED log
    /\ UNCHANGED <<inbound, peer, pending, version, agent_id, nconn, nsent>>
    /\ UNCHANGED <<clientVars, codecVars>>

(***************************************************************************)
(* The client: sign(sock, keygrip, digest).                                *)
(***************************************************************************)
hash_algo == 8
DIGEST_LEN == 32

\* 'RESET'
RESET ==
    <<82, 69, 83, 69, 84>>
\* 'OPTION ttyname='
OPTION_ttyname ==
    <<79, 80, 84, 73, 79, 78, 32, 116, 116, 121, 110, 97, 109, 101, 61>>
\* 'SIGKEY '
SIGKEY ==
    <<83, 73, 71, 75, 69, 89, 32>>
\* 'SETHASH '
SETHASH ==
    <<83, 69, 84, 72, 65, 83, 72, 32>>
\* 'SETKEYDESC '
SETKEYDESC ==
    <<83, 69, 84, 75, 69, 89, 68, 69, 83, 67, 32>>
\* 'PKSIGN'
PKSIGN ==
    <<80, 75, 83, 73, 71, 78>>
\* 'Please+enter+the+passphrase+to+unlock+the+OpenPGP%0A'
\* 'secret+key,+to+sign+a+new+TREZOR-based+subkey'
desc ==
    <<80, 108, 101, 97, 115, 101, 43, 101, 110, 116, 101, 114, 43, 116, 104,
      101, 43, 112, 97, 115, 115, 112, 104, 114, 97, 115, 101, 43, 116, 111,
      43, 117, 110, 108, 111, 99, 107, 43, 116, 104, 101, 43, 79, 112, 101,
      110, 80, 71, 80, 37, 48, 65, 115, 101, 99, 114, 101, 116, 43, 107, 101,
      121, 44, 43, 116, 111, 43, 115, 105, 103, 110, 43, 97, 43, 110, 101,
      119, 43, 84, 82, 69, 90, 79, 82, 45, 98, 97, 115, 101, 100, 43, 115,
      117, 98, 107, 101, 121>>
\* 'sig-val'
sig_val ==
    <<115, 105, 103, 45, 118, 97, 108>>
\* 'rsa'
rsa ==
    <<114, 115, 97>>
\* 'ecdsa'
ecdsa ==
    <<101, 99, 100, 115, 97>>

\* the handshake in another order: SETHASH before SIGKEY
command_HashFirst(k, dg, kg, tt) ==
    CASE k = 1 -> RESET
      [] k = 2 -> OPTION_ttyname \o tt
      [] k = 3 -> SETHASH \o Dec(hash_algo) \o <<SPACE>> \o _hex(dg)
      [] k = 4 -> SIGKEY \o kg
      [] k = 5 -> SETKEYDESC \o desc
      [] k = 6 -> PKSIGN

\* the k-th command sign writes (lines 109, 114, 116, 117, 122, 123)
command(k, dg, kg, tt) ==
    CASE k = 1 -> RESET
      [] k = 2 -> OPTION_ttyname \o tt
      [] k = 3 -> SIGKEY \o kg
      [] k = 4 -> SETHASH \o Dec(hash_algo) \o <<SPACE>> \o _hex(dg)
      [] k = 5 -> SETKEYDESC \o desc
      [] k = 6 -> PKSIGN

\* the source line of the k-th _communicate call
command_line(k) ==
    CASE k = 1 -> 109 [] k = 2 -> 114 [] k = 3 -> 116
      [] k = 4 -> 117 [] k = 5 -> 122 [] k = 6 -> 123

\* every reply is checked for the prefix only
reply_accepted_Prefix(k, line) == startswith(line, OK)

\* a check that lets every reply pass
reply_accepted_Any(k, line) == TRUE

\* the assert on the reply to the k-th command: startswith('OK') for RESET,
\* == 'OK' for the others
reply_accepted(k, line) ==
    IF k = 1 THEN startswith(line, OK) ELSE line = OK

\* `a, b = x`: x is a list of two elements or a str of two characters
Unpack2(x) ==
    IF IsList(x) /\ Len(x.v) = 2
    THEN [ok |-> TRUE, a |-> x.v[1], b |-> x.v[2]]
    ELSE IF IsAtom(x) /\ Len(x.v) = 2
    THEN [ok |-> TRUE, a |-> Atom(<<x.v[1]>>), b |-> Atom(<<x.v[2]>>)]
    ELSE [ok |-> FALSE, a |-> Atom(<<>>), b |-> Atom(<<>>)]

\* x == 'name' for a parsed value x
IsStr(x, name) == IsAtom(x) /\ x.v = name

\* the unsigned big-endian integer of a byte string
RECURSIVE BigEndian(_)
BigEndian(b) ==
    IF b = <<>> THEN 0
    ELSE BigEndian(SubSeq(b, 1, Len(b) - 1)) * 256 + b[Len(b)]

\* util.bytes2num: raises for a list
bytes2num(x) ==
    IF IsAtom(x) THEN [ok |-> TRUE, val |-> BigEndian(x.v)]
    ELSE [ok |-> FALSE, val |-> 0]

SigFail == [ok |-> FALSE, val |-> <<>>]

\* the pair returned as (s, r)
_parse_ecdsa_sig_Swapped(args) ==
    IF Len(args) # 2 THEN SigFail
    ELSE LET p1 == Unpack2(args[1])
             p2 == Unpack2(args[2])
         IN  IF ~p1.ok \/ ~p2.ok THEN SigFail
             ELSE IF ~IsStr(p1.a, key_r) \/ ~IsStr(p2.a, key_s) THEN SigFail
             ELSE IF ~bytes2num(p1.b).ok \/ ~bytes2num(p2.b).ok THEN SigFail
             ELSE [ok |-> TRUE,
                   val |-> <<bytes2num(p2.b).val, bytes2num(p1.b).val>>]

\* lines 82-87
_parse_ecdsa_sig(args) ==
    IF Len(args) # 2 THEN SigFail
    ELSE LET p1 == Unpack2(args[1])
             p2 == Unpack2(args[2])
         IN  IF ~p1.ok \/ ~p2.ok THEN SigFail
             ELSE IF ~IsStr(p1.a, key_r) \/ ~IsStr(p2.a, key_s) THEN SigFail
             ELSE IF ~bytes2num(p1.b).ok \/ ~bytes2num(p2.b).ok THEN SigFail
             ELSE [ok |-> TRUE,
                   val |-> <<bytes2num(p1.b).val, bytes2num(p2.b).val>>]

_parse_rsa_sig(args) ==
    IF Len(args) # 1 THEN SigFail
    ELSE LET p1 == Unpack2(args[1])
         IN  IF ~p1.ok THEN SigFail
             ELSE IF ~IsStr(p1.a, key_s) THEN SigFail
             ELSE IF ~bytes2num(p1.b).ok THEN SigFail
             ELSE [ok |-> TRUE, val |-> <<bytes2num(p1.b).val>>]

\* sig[0] of a str is a character, which names no parser
_parse_sig(sig) ==
    LET p == Unpack2(sig)
    IN  IF ~p.ok \/ ~IsStr(p.a, sig_val) THEN SigFail
        ELSE IF ~IsList(p.b) THEN SigFail
        ELSE IF IsStr(p.b.v[1], rsa) THEN _parse_rsa_sig(Tail(p.b.v))
        ELSE IF IsStr(p.b.v[1], ecdsa) THEN _parse_ecdsa_sig(Tail(p.b.v))
        ELSE SigFail

\* lines 132-134, for what _parse returned
signature_parsed(e) ==
    IF ~e.ok \/ e.rest # <<>> THEN SigFail ELSE _parse_sig(e.val)

\* lines 128-132, for the line split at its first space
signature_split(p) ==
    IF ~p.found \/ p.head # D THEN SigFail
    ELSE signature_parsed(_parse(p.tail))

\* lines 126-128, for what _unescape returned
signature_unescaped(u) ==
    IF ~u.ok THEN SigFail ELSE signature_split(split1(u.val, SPACE))

\* what is left after the S-expression is not looked at
signature_of_AnyLeftover(line) ==
    LET u == _unescape(strip(line))
        p == split1(u.val, SPACE)
        e == _parse(p.tail)
    IN  IF ~u.ok \/ ~p.found \/ p.head # D THEN SigFail
        ELSE IF ~e.ok THEN SigFail
        ELSE _parse_sig(e.val)

\* lines 124-134: from the line read after PKSIGN's reply to the signature
signature_of(line) == signature_unescaped(_unescape(strip(line)))

(***************************************************************************)
(* The client: its environment.  The agent writes reply lines, one when    *)
(* the previous one has been read, and may disconnect.                     *)
(***************************************************************************)
\* longest r and s of a signature the agent sends
MaxSigLen == 2

\* 'OK Pleased to meet you', gpg-agent's greeting
agent_greeting ==
    <<79, 75, 32, 80, 108, 101, 97, 115, 101, 100, 32, 116, 111, 32, 109,
      101, 101, 116, 32, 121, 111, 117>>
\* 'OK extra text'
OK_extra ==
    <<79, 75, 32, 101, 120, 116, 114, 97, 32, 116, 101, 120, 116>>
\* 'ERR 67108881 No secret key'
ERR ==
    <<69, 82, 82, 32, 54, 55, 49, 48, 56, 56, 56, 49, 32, 78, 111, 32, 115,
      101, 99, 114, 101, 116, 32, 107, 101, 121>>
\* '/dev/pts/0'
tty_name ==
    <<47, 100, 101, 118, 47, 112, 116, 115, 47, 48>>
\* 'ABCDEF0123456789ABCDEF0123456789ABCDEF01'
a_keygrip ==
    <<65, 66, 67, 68, 69, 70, 48, 49, 50, 51, 52, 53, 54, 55, 56, 57, 65, 66,
      67, 68, 69, 70, 48, 49, 50, 51, 52, 53, 54, 55, 56, 57, 65, 66, 67, 68,
      69, 70, 48, 49>>

\* the canonical form of a list: '(' name children ')'
SList(name, children) == <<LPAREN>> \o SAtom(name) \o children \o <<RPAREN>>

\* (sig-val (ecdsa (r <r>) (s <s>)))
EcdsaText(r, s) ==
    SList(sig_val, SList(ecdsa, SList(key_r, SAtom(r)) \o SList(key_s, SAtom(s))))

\* the data line carrying it, escaped for the wire
EcdsaLine(r, s) == D_SP \o escape(EcdsaText(r, s))

\* (sig-val (rsa (s <s>)))
RsaLine(s) == D_SP \o escape(SList(sig_val, SList(rsa, SList(key_s, SAtom(s)))))

SigBytes == SeqsUpTo({0, PCT, LF}, MaxSigLen)

\* signatures whose labeled lists are the two-byte atoms 'r\1', 's\2' and
\* 's\7', and signatures with a child too many or too few
QuirkSigLines ==
    { D_SP \o SList(sig_val, SList(ecdsa, SAtom(<<114, 1>>)
                                          \o SAtom(<<115, 2>>))),
      D_SP \o SList(sig_val, SList(rsa, SAtom(<<115, 7>>))),
      D_SP \o SList(sig_val, SList(ecdsa, SList(key_r, SAtom(<<1>>)))),
      D_SP \o SList(sig_val, SList(ecdsa, SList(key_r, SAtom(<<1>>))
                                          \o SList(key_s, SAtom(<<2>>))
                                          \o SList(key_s, SAtom(<<3>>)))),
      D_SP \o SList(sig_val, SList(rsa, SList(key_s, SAtom(<<1>>))
                                        \o SList(key_s, SAtom(<<2>>)))),
      D_SP \o SList(sig_val, SList(rsa, SList(key_r, SAtom(<<1>>)))) }

\* an ecdsa signature with the labels swapped, one of algorithm 'dsa', and
\* one followed by 'x'
OddSigLines ==
    { D_SP \o SList(sig_val, SList(ecdsa, SList(key_s, SAtom(<<1>>))
                                          \o SList(key_r, SAtom(<<2>>)))),
      D_SP \o SList(sig_val, SList(<<100, 115, 97>>,
                                   SList(key_r, SAtom(<<1>>))
                                   \o SList(key_s, SAtom(<<2>>)))),
      EcdsaLine(<<1>>, <<2>>) \o <<120>> }

AgentLines ==
    { OK, agent_greeting, OK_extra, ERR, RsaLine(<<1, 0>>) }
    \cup { EcdsaLine(r, s) : r \in SigBytes, s \in SigBytes }
    \cup OddSigLines
    \cup QuirkSigLines

Digests ==
    { Fill(0, DIGEST_LEN), Fill(171, DIGEST_LEN),
      Fill(0, DIGEST_LEN - 1), Fill(0, DIGEST_LEN + 1) }

(***************************************************************************)
(* The client: actions.                                                    *)
(***************************************************************************)
ClientIdle ==
    /\ spc = "idle"
    /\ step = 1
    /\ cin = <<>>
    /\ agent = "open"
    /\ clog = <<>>
    /\ sret = SigFail

ClientInit ==
    /\ ClientIdle
    /\ digest \in Digests
    /\ keygrip = a_keygrip
    /\ ttyname = tty_name

\* the agent writes a line
AgentSend(line) ==
    /\ agent = "open"
    /\ spc \notin {"done", "failed"}
    /\ cin = <<>>
    /\ cin' = line \o <<LF>>
    /\ UNCHANGED <<spc, step, agent, clog, sret, digest, keygrip, ttyname>>
    /\ UNCHANGED <<serverVars, codecVars>>

\* the agent disconnects
AgentClose ==
    /\ agent = "open"
    /\ agent' = "closed"
    /\ UNCHANGED <<spc, step, cin, clog, sret, digest, keygrip, ttyname>>
    /\ UNCHANGED <<serverVars, codecVars>>

\* the digest is not checked
SignBegin_NoCheck ==
    /\ spc = "idle"
    /\ spc' = "send"
    /\ UNCHANGED <<step, cin, agent, clog, sret, digest, keygrip, ttyname>>
    /\ UNCHANGED <<serverVars, codecVars>>

\* line 107: the digest is checked before anything is written
SignBegin ==
    /\ spc = "idle"
    /\ spc' = IF Len(digest) = DIGEST_LEN THEN "send" ELSE "failed"
    /\ UNCHANGED <<step, cin, agent, clog, sret, digest, keygrip, ttyname>>
    /\ UNCHANGED <<serverVars, codecVars>>

\* line 31: _communicate writes the command and a line feed
SignSend ==
    /\ spc = "send"
    /\ clog' = Append(clog, Event("send", command_line(step),
                                  command(step, digest, keygrip, ttyname)
                                  \o <<LF>>))
    /\ spc' = "recv"
    /\ UNCHANGED <<step, cin, agent, sret, digest, keygrip, ttyname>>
    /\ UNCHANGED <<serverVars, codecVars>>

\* line 32 and the assert around the call: the reply is read and checked
SignRecv ==
    /\ spc = "recv"
    /\ _recvline(cin).found
    /\ LET line == _recvline(cin).head
       IN  /\ cin' = _recvline(cin).tail
           /\ clog' = Append(clog, Event("recv", command_line(step), line))
           /\ IF ~reply_accepted(step, line)
              THEN spc' = "failed" /\ UNCHANGED step
              ELSE IF step = 6
              THEN spc' = "data" /\ UNCHANGED step
              ELSE spc' = "send" /\ step' = step + 1
    /\ UNCHANGED <<agent, sret, digest, keygrip, ttyname>>
    /\ UNCHANGED <<serverVars, codecVars>>

\* lines 124-134: one more line is read and decoded
SignRecvData ==
    /\ spc = "data"
    /\ _recvline(cin).found
    /\ LET line == _recvline(cin).head
       IN  /\ cin' = _recvline(cin).tail
           /\ clog' = Append(clog, Event("recv", 124, line))
           /\ sret' = signature_of(line)
           /\ spc' = IF sret'.ok THEN "done" ELSE "failed"
    /\ UNCHANGED <<step, agent, digest, keygrip, ttyname>>
    /\ UNCHANGED <<serverVars, codecVars>>

\* lines 38-42 once the agent has disconnected: recv returns '' for ever
SignRecvEOF ==
    /\ spc \in {"recv", "data"}
    /\ ~_recvline(cin).found
    /\ agent = "closed"
    /\ UNCHANGED <<clientVars, serverVars, codecVars>>

(***************************************************************************)
(* The codec on its own: a point is serialized into the PKDECRYPT reply,   *)
(* read back as a line, unescaped and parsed; a byte string is escaped and *)
(* unescaped.                                                              *)
(***************************************************************************)
\* '%', line feed, carriage return, '(', ')', ':' and the zero byte
Special == {PCT, LF, CR, LPAREN, RPAREN, COLON, 0}

\* points: the marker, up to MaxEdge special bytes, and one special byte
\* repeated up to the length of a point
Points ==
    { <<POINT_MARKER>> \o pre \o Fill(f, POINT_LEN - 1 - Len(pre)) :
        pre \in SeqsUpTo(Special, MaxEdge), f \in Special }

\* '%', line feed, carriage return, and '0', '2', '5', 'A'
EscAlphabet == {PCT, LF, CR, 48, 50, 53, 65}

ByteStrings == SeqsUpTo(EscAlphabet, MaxLen)

\* texts given to _unescape as they are: '%', '4', 'A', 'G' and ' '
UnescAlphabet == {PCT, 52, 65, 71, SPACE}

EscapedTexts == SeqsUpTo(UnescAlphabet, MaxLen)

\* texts given to _parse: '(', ')', ':', '0', '1', '-' and 'a', and some
\* nested lists
MaxParseLen == 4

ParseAlphabet == {LPAREN, RPAREN, COLON, 48, 49, 45, 97}

NestedTexts ==
    { <<40, 48, 58, 40, 48, 58, 41, 41>>,
      <<40, 49, 58, 97, 40, 49, 58, 97, 49, 58, 97, 41, 48, 58, 41, 97>>,
      <<40, 48, 58, 40, 48, 58, 40, 48, 58>>,
      <<40, 49, 58, 97, 40, 45, 49, 58, 97, 97, 41>>,
      <<40, 48, 58, 40, 48, 58, 41>> }

ParseTexts == SeqsUpTo(ParseAlphabet, MaxParseLen) \cup NestedTexts

CodecIdle ==
    /\ wire = <<>>
    /\ unesc = [ok |-> FALSE, val |-> <<>>]
    /\ parsed = ParseFail
    /\ stage = "input"

CodecInit ==
    /\ \/ kind = "point" /\ inp \in Points
       \/ kind = "bytes" /\ inp \in ByteStrings
       \/ kind = "escaped" /\ inp \in EscapedTexts
       \/ kind = "sexp" /\ inp \in ParseTexts
    /\ CodecIdle

\* the server's reply for the point
ServePoint ==
    /\ kind = "point" /\ stage = "input"
    /\ wire' = pkdecrypt_reply(inp)
    /\ stage' = "wire"
    /\ UNCHANGED <<kind, inp, unesc, parsed>>
    /\ UNCHANGED <<serverVars, clientVars>>

EscapeBytes ==
    /\ kind = "bytes" /\ stage = "input"
    /\ wire' = escape(inp)
    /\ stage' = "wire"
    /\ UNCHANGED <<kind, inp, unesc, parsed>>
    /\ UNCHANGED <<serverVars, clientVars>>

\* the peer reads the first line of the reply, drops 'D ' and unescapes; a
\* byte string is unescaped as it is
Unescape ==
    /\ stage = "wire"
    /\ unesc' = _unescape(IF kind = "point"
                          THEN SliceFrom(_recvline(wire).head, Len(D_SP))
                          ELSE wire)
    /\ stage' = "unescaped"
    /\ UNCHANGED <<kind, inp, wire, parsed>>
    /\ UNCHANGED <<serverVars, clientVars>>

Parse ==
    /\ stage = "unescaped" /\ kind = "point"
    /\ parsed' = IF unesc.ok THEN _parse(unesc.val) ELSE ParseFail
    /\ stage' = "parsed"
    /\ UNCHANGED <<kind, inp, wire, unesc>>
    /\ UNCHANGED <<serverVars, clientVars>>

\* _unescape called on a text as it is
UnescapeText ==
    /\ kind = "escaped" /\ stage = "input"
    /\ unesc' = _unescape(inp)
    /\ stage' = "unescaped"
    /\ UNCHANGED <<kind, inp, wire, parsed>>
    /\ UNCHANGED <<serverVars, clientVars>>

\* _parse called on a text as it is
ParseText ==
    /\ kind = "sexp" /\ stage = "input"
    /\ parsed' = _parse(inp)
    /\ stage' = "parsed"
    /\ UNCHANGED <<kind, inp, wire, unesc>>
    /\ UNCHANGED <<serverVars, clientVars>>

(***************************************************************************)
(* Specifications.                                                         *)
(***************************************************************************)
ServerIdle ==
    /\ pc = "accept" /\ inbound = <<>> /\ peer = "none" /\ pending = FALSE
    /\ sockOpen = FALSE /\ log = <<>> /\ version = default_version
    /\ agent_id = default_agent_id /\ nconn = 0 /\ nsent = 0

ClientArgsIdle ==
    /\ digest = Fill(0, DIGEST_LEN) /\ keygrip = a_keygrip
    /\ ttyname = tty_name

CodecInputIdle == kind = "bytes" /\ inp = <<>>

\* the server and its peers
Init == ServerInit /\ ClientIdle /\ ClientArgsIdle /\ CodecIdle /\ CodecInputIdle

Next ==
    \/ PeerConnect
    \/ \E chunk \in PeerChunks : PeerSend(chunk)
    \/ PeerClose
    \/ Accept
    \/ ReadLine
    \/ ReadEOF
    \/ ReadCiphertext
    \/ \E result \in SignResults : SignReturn(result)

Spec == Init /\ [][Next]_vars

\* the dispatch loop (lines 167-180 and 206) never stops taking the steps it
\* can take: the process keeps running
DispatchStep == Accept \/ ReadLine \/ ReadEOF

FairSpec == Init /\ [][Next]_vars /\ WF_vars(DispatchStep)

\* sign and the agent
InitSign == ClientInit /\ ServerIdle /\ CodecIdle /\ CodecInputIdle

NextSign ==
    \/ \E line \in AgentLines : AgentSend(line)
    \/ AgentClose
    \/ SignBegin
    \/ SignSend
    \/ SignRecv
    \/ SignRecvData
    \/ SignRecvEOF

SpecSign == InitSign /\ [][NextSign]_vars

\* the codec on its own
InitCodec == CodecInit /\ ServerIdle /\ ClientIdle /\ ClientArgsIdle

NextCodec ==
    \/ ServePoint
    \/ EscapeBytes
    \/ Unescape
    \/ Parse
    \/ UnescapeText
    \/ ParseText

SpecCodec == InitCodec /\ [][NextCodec]_vars

\* the server and sign side by side, each decoding the data lines it is sent:
\* a ciphertext and a signature, with and without bytes after them
DecodeChunks == { l \o <<LF>> : l \in {PKDECRYPT, TrailingLine} }

DecodeLines ==
    { OK, EcdsaLine(<<1>>, <<2>>), EcdsaLine(<<1>>, <<2>>) \o <<120>> }

\* the capability returns a point or raises
DecodeResults ==
    { [ok |-> TRUE, sig |-> <<POINT_MARKER>> \o Fill(0, POINT_LEN - 1)],
      [ok |-> FALSE, sig |-> <<>>] }

InitDecode ==
    /\ ServerInit /\ version = default_version /\ agent_id = default_agent_id
    /\ ClientInit /\ digest = Fill(0, DIGEST_LEN)
    /\ CodecIdle /\ CodecInputIdle

NextDecode ==
    \/ PeerConnect
    \/ \E chunk \in DecodeChunks : PeerSend(chunk)
    \/ PeerClose
    \/ Accept
    \/ ReadLine
    \/ ReadEOF
    \/ ReadCiphertext
    \/ \E result \in DecodeResults : SignReturn(result)
    \/ \E line \in DecodeLines : AgentSend(line)
    \/ AgentClose
    \/ SignBegin
    \/ SignSend
    \/ SignRecv
    \/ SignRecvData
    \/ SignRecvEOF

SpecDecode == InitDecode /\ [][NextDecode]_vars

(***************************************************************************)
(* Properties of sign (checked under SpecSign).                            *)
(***************************************************************************)
\* the number of commands written among the first i calls of sign
SendsUpTo(i) == Cardinality({j \in 1..i : clog[j].op = "send"})

\* the lines sign has read, in order
ReadLines ==
    LET reads == SelectSeq(clog, LAMBDA e : e.op = "recv")
    IN  [i \in 1..Len(reads) |-> reads[i].data]

\* h is the uppercase hexadecimal form of the bytes d
IsUpperHexOf(h, d) ==
    /\ Len(h) = 2 * Len(d)
    /\ \A i \in 1..Len(h) : h[i] \in (48..57) \cup (65..70)
    /\ \A i \in 1..Len(d) :
         16 * DigitVal(h[2 * i - 1]) + DigitVal(h[2 * i]) = d[i]

\* bytes is the k-th command line of the fixed sequence
IsFixedCommand(k, bytes) ==
    LET pre == SETHASH \o <<56, SPACE>>
    IN  CASE k = 1 -> bytes = RESET \o <<LF>>
          [] k = 2 -> bytes = OPTION_ttyname \o ttyname \o <<LF>>
          [] k = 3 -> bytes = SIGKEY \o keygrip \o <<LF>>
          [] k = 4 -> /\ startswith(bytes, pre)
                      /\ bytes[Len(bytes)] = LF
                      /\ IsUpperHexOf(SubSeq(bytes, Len(pre) + 1,
                                             Len(bytes) - 1), digest)
          [] k = 5 -> bytes = SETKEYDESC \o desc \o <<LF>>
          [] k = 6 -> bytes = PKSIGN \o <<LF>>
          [] OTHER -> FALSE

\* the check the handshake requires of the reply to the k-th command
PassesCheck(k, line) ==
    IF k = 1 THEN startswith(line, OK) ELSE line = OK

\* C1: the command lines sign writes are a prefix of RESET, OPTION
\* ttyname=<tty>, SIGKEY <keygrip>, SETHASH 8 <uppercase hex digest>,
\* SETKEYDESC <prompt>, PKSIGN, and each command after the first is written
\* right after the reply to the one before it was read and passed its check.
C1_CommandsInOrder ==
    \A i \in 1..Len(clog) :
        clog[i].op = "send" =>
            LET k == SendsUpTo(i)
            IN  /\ IsFixedCommand(k, clog[i].data)
                /\ IF k = 1 THEN i = 1
                   ELSE /\ clog[i - 1].op = "recv"
                        /\ clog[i - 2].op = "send"
                        /\ PassesCheck(k - 1, clog[i - 1].data)

\* all six commands have been written, for a digest of bytes 0xAB
C1_Witness ==
    /\ SendsUpTo(Len(clog)) = 6
    /\ digest = Fill(171, DIGEST_LEN)

\* C2: a reply to a handshake command that fails its check is the last thing
\* sign does on the transport (no further command, no further read, no
\* retry), sign has failed and has returned no signature.
C2_FailedReplyAborts ==
    \A i \in 1..Len(clog) :
        (/\ clog[i].op = "recv"
         /\ clog[i].at # 124
         /\ ~PassesCheck(SendsUpTo(i), clog[i].data))
        => /\ i = Len(clog)
           /\ spc = "failed"
           /\ ~sret.ok

\* SETHASH was answered with an error line
C2_Witness ==
    /\ Len(clog) = 8
    /\ clog[8].op = "recv"
    /\ clog[8].data = ERR
    /\ spc = "failed"

\* the big-endian integer of the bytes b, summed byte by byte
RECURSIVE BigEndianSum(_, _)
BigEndianSum(b, i) ==
    IF i > Len(b) THEN 0
    ELSE b[i] * 256 ^ (Len(b) - i) + BigEndianSum(b, i + 1)

\* the data lines of the signatures (r, s)
EcdsaLines == [r \in SigBytes |-> [s \in SigBytes |-> EcdsaLine(r, s)]]

\* the first n lines read are all OK
AllOk(n) == \A i \in 1..n : ReadLines[i] = OK

\* C3 as stated: the transport answers OK to RESET, OPTION, SIGKEY, SETHASH
\* and SETKEYDESC and answers PKSIGN with the data line; sign then does not
\* fail, and what it returns is (r, s).
C3_DataLineAnswersPksign ==
    (Len(ReadLines) = 6 /\ AllOk(5))
    => \A r \in SigBytes, s \in SigBytes :
          ReadLines[6] = EcdsaLines[r][s]
          => /\ spc # "failed"
             /\ spc = "done"
                => sret.val = <<BigEndianSum(r, 1), BigEndianSum(s, 1)>>

\* C3 (amended): when the six lines read as replies to the six commands,
\* PKSIGN included, are all OK and the next line is the data line carrying
\* the escaped (sig-val (ecdsa (r <r>) (s <s>))), sign returns the pair of
\* the big-endian integers of r and s.
C3_DataLineAfterOk ==
    (Len(ReadLines) = 7 /\ AllOk(6))
    => \A r \in SigBytes, s \in SigBytes :
          ReadLines[7] = EcdsaLines[r][s]
          => /\ spc = "done"
             /\ sret.ok
             /\ sret.val = <<BigEndianSum(r, 1), BigEndianSum(s, 1)>>

\* sign has returned for r = '%\n' and s = '\0%'
C3_Witness ==
    /\ spc = "done"
    /\ Len(ReadLines) = 7
    /\ AllOk(6)
    /\ ReadLines[7] = EcdsaLines[<<PCT, LF>>][<<0, PCT>>]

(***************************************************************************)
(* Properties of server (checked under Spec and FairSpec).                 *)
(***************************************************************************)
IsRecv(i, at) == log[i].op = "recv" /\ log[i].at = at
IsSend(i, at) == log[i].op = "send" /\ log[i].at = at

\* the reply the dispatch loop owes a line that is not PKDECRYPT
DispatchReply(line) ==
    IF line = GETINFO_version THEN D_SP \o version \o <<LF>> \o OK_LF
    ELSE IF line = AGENT_ID THEN D_SP \o agent_id \o <<LF>> \o OK_LF
    ELSE OK_LF

\* C4: every non-empty line read in the dispatch loop other than PKDECRYPT
\* is answered at once with D <version>\nOK\n for GETINFO version, with
\* D <agent id>\nOK\n for AGENT_ID and with OK\n for any other line; the
\* connection stays open and the next thing the server does is read a line.
C4_DispatchReplies ==
    \A i \in 1..Len(log) :
        (IsRecv(i, 171) /\ log[i].data # <<>> /\ log[i].data # PKDECRYPT)
        => /\ i < Len(log)
           /\ log[i + 1].op = "send"
           /\ log[i + 1].data = DispatchReply(log[i].data)
           /\ IF i + 1 = Len(log)
              THEN pc = "recvline" /\ sockOpen
              ELSE IsRecv(i + 2, 171)

\* GETINFO version, AGENT_ID and FOO BAR have been answered on a connection
C4_Witness ==
    /\ version = default_version
    /\ Len(log) = 8
    /\ log[3].data = GETINFO_version
    /\ log[4].data = D_SP \o default_version \o <<LF>> \o OK_LF
    /\ log[5].data = AGENT_ID
    /\ log[7].data = FOO_BAR
    /\ log[8].data = OK_LF

\* C5: on PKDECRYPT the server sends the inquiry, then reads one line, which
\* starts with 'D ', then invokes the capability once, with the value of the
\* e field as the challenge, and then sends the reply; the capability is
\* invoked nowhere else.
C5_PkdecryptOrder ==
    \A i \in 1..Len(log) :
        /\ (IsRecv(i, 171) /\ log[i].data = PKDECRYPT)
           => i < Len(log) /\ IsSend(i + 1, 182) /\ log[i + 1].data = inquire
        /\ IsSend(i, 182)
           => i = Len(log) \/ IsRecv(i + 1, 183)
        /\ IsRecv(i, 183)
           => /\ IsSend(i - 1, 182)
              /\ i = Len(log) \/ log[i + 1].op = "sign"
        /\ log[i].op = "sign"
           => /\ i >= 4
              /\ IsRecv(i - 3, 171) /\ log[i - 3].data = PKDECRYPT
              /\ IsSend(i - 2, 182)
              /\ IsRecv(i - 1, 183) /\ startswith(log[i - 1].data, D_SP)
              /\ \A e \in Challenges :
                    log[i - 1].data = CipherLine(e) => IsStr(log[i].data, e)
              /\ i = Len(log) \/ IsSend(i + 1, 203)
        /\ IsSend(i, 203)
           => /\ log[i - 1].op = "sign"
              /\ startswith(log[i].data, D_SP)

\* the capability was invoked with the challenge '%\n' and the reply sent
C5_Witness ==
    \E i \in 1..Len(log) :
        /\ log[i].op = "sign"
        /\ IsStr(log[i].data, <<PCT, LF>>)
        /\ i < Len(log)
        /\ IsSend(i + 1, 203)

\* C6: the PKDECRYPT reply is the last thing the server does on a
\* connection: what follows it is the accept of the next connection; and a
\* connection is accepted only as the first thing ever or right after the
\* read of an empty line or a PKDECRYPT reply.
C6_PkdecryptEndsSession ==
    \A i \in 1..Len(log) :
        /\ IsSend(i, 203)
           => IF i = Len(log) THEN pc = "accept" ELSE log[i + 1].op = "accept"
        /\ (log[i].op = "accept" /\ i > 1)
           => \/ IsRecv(i - 1, 171) /\ log[i - 1].data = <<>>
              \/ IsSend(i - 1, 203)

\* a connection was accepted after a PKDECRYPT reply
C6_Witness ==
    \E i \in 1..Len(log) :
        /\ IsSend(i, 203)
        /\ i < Len(log)
        /\ log[i + 1].op = "accept"

\* C9: if the peer has disconnected while the server waits for a line in its
\* dispatch loop, the read returns and the server gets back to accepting.
C9_ReadReturnsOnDisconnect ==
    (peer = "closed" /\ pc = "recvline" /\ ~_recvline(inbound).found)
    ~> (pc = "accept")

\* C10: after the server has read an empty line it sends no reply, the
\* connection is closed and the server is accepting.
C10_EmptyLineClosesConnection ==
    \A i \in 1..Len(log) :
        (IsRecv(i, 171) /\ log[i].data = <<>>)
        => IF i = Len(log)
           THEN pc = "accept" /\ ~sockOpen
           ELSE log[i + 1].op = "accept"

(***************************************************************************)
(* Properties of the codec (checked under SpecCodec).                      *)
(***************************************************************************)
\* what the reply carries between 'D ' and the final '\nOK\n'
ReplyPayload == SubSeq(wire, Len(D_SP) + 1, Len(wire) - Len(OK_LF) - 1)

\* C7: for a 65-byte point q starting with 0x04, the payload after 'D ' in
\* the PKDECRYPT reply holds no line feed and, unescaped and parsed, gives
\* the list named value whose one atom is q, with nothing left over.
C7_PointRoundTrip ==
    (kind = "point" /\ stage = "parsed")
    => /\ wire = D_SP \o ReplyPayload \o <<LF>> \o OK_LF
       /\ Find(ReplyPayload, LF) = 0
       /\ parsed.ok
       /\ parsed.rest = <<>>
       /\ IsList(parsed.val)
       /\ Len(parsed.val.v) = 2
       /\ IsStr(parsed.val.v[1], value)
       /\ IsStr(parsed.val.v[2], inp)

\* a point that holds '%', a line feed and ')' went through
C7_Witness ==
    /\ kind = "point"
    /\ stage = "parsed"
    /\ inp[2] = PCT
    /\ inp[3] = LF
    /\ inp[POINT_LEN] = RPAREN

\* C8: unescape(escape(x)) = x for every byte string x.
C8_EscapeRoundTrip ==
    (kind = "bytes" /\ stage = "unescaped")
    => unesc.ok /\ unesc.val = inp

\* '%25' and '2%' went through
C8_Witness ==
    /\ kind = "bytes"
    /\ stage = "unescaped"
    /\ inp \in { <<PCT, 50, 53>>, <<50, PCT>> }

\* b is a non-empty string of decimal digits
IsDecimal(b) == b # <<>> /\ \A i \in 1..Len(b) : b[i] \in 48..57

\* the number the decimal digits b spell
RECURSIVE DecimalSum(_, _)
DecimalSum(b, i) ==
    IF i > Len(b) THEN 0
    ELSE (b[i] - 48) * 10 ^ (Len(b) - i) + DecimalSum(b, i + 1)

\* C12: parse of a text that does not start a list returns an atom only when
\* the text is a non-negative decimal length, ':' and at least that many
\* bytes, and the atom then has exactly the declared number of bytes; in
\* every other case parse fails.
C12_AtomHasDeclaredLength ==
    (kind = "sexp" /\ stage = "parsed" /\ inp # <<>> /\ inp[1] # LPAREN)
    => LET p == split1(inp, COLON)
       IN  IF /\ p.found
              /\ IsDecimal(p.head)
              /\ Len(p.tail) >= DecimalSum(p.head, 1)
           THEN /\ parsed.ok
                /\ IsAtom(parsed.val)
                /\ Len(parsed.val.v) = DecimalSum(p.head, 1)
           ELSE ~parsed.ok

IsHexDigit(c) == c \in (48..57) \cup (65..70) \cup (97..102)

\* C13: _unescape fails whenever a '%' of its input is followed by fewer
\* than two bytes or by two bytes that are not both hexadecimal digits.
C13_BrokenEscapeFails ==
    (kind = "escaped" /\ stage = "unescaped")
    => ((\E i \in 1..Len(inp) :
            /\ inp[i] = PCT
            /\ \/ i + 2 > Len(inp)
               \/ ~IsHexDigit(inp[i + 1])
               \/ ~IsHexDigit(inp[i + 2]))
        => ~unesc.ok)

\* C20: when parse returns, what it leaves is a strictly shorter suffix of
\* its input, and a list with no ')' anywhere after it makes parse fail.
C20_ParseConsumes ==
    (kind = "sexp" /\ stage = "parsed")
    => /\ parsed.ok
          => /\ Len(parsed.rest) < Len(inp)
             /\ parsed.rest = SubSeq(inp, Len(inp) - Len(parsed.rest) + 1,
                                     Len(inp))
       /\ (inp # <<>> /\ inp[1] = LPAREN /\ Find(inp, RPAREN) = 0)
          => ~parsed.ok

\* the list '(0:(0:))' whose names are empty was parsed to its end
C20_Witness ==
    /\ kind = "sexp"
    /\ stage = "parsed"
    /\ inp = <<40, 48, 58, 40, 48, 58, 41, 41>>
    /\ parsed.ok
    /\ parsed.rest = <<>>

\* C14: with a digest that is not 32 bytes long sign fails before the
\* handshake: it writes no command, reads no line and returns nothing.
C14_DigestCheckedFirst ==
    Len(digest) # 32
    => /\ clog = <<>>
       /\ spc \in {"idle", "failed"}
       /\ ~sret.ok

\* sign has failed for a digest of 31 bytes; the line the agent wrote is
\* still unread
C14_Witness ==
    /\ Len(digest) = 31
    /\ spc = "failed"
    /\ cin # <<>>

\* x is the list (name <bytes>)
IsLabeled(x, name) ==
    /\ IsList(x)
    /\ Len(x.v) = 2
    /\ IsStr(x.v[1], name)
    /\ IsAtom(x.v[2])

\* exp is the list (sig-val (algo ...)) with n children after algo
IsSigVal(exp, algo, n) ==
    /\ IsList(exp)
    /\ Len(exp.v) = 2
    /\ IsStr(exp.v[1], sig_val)
    /\ IsList(exp.v[2])
    /\ Len(exp.v[2].v) = n + 1
    /\ IsStr(exp.v[2].v[1], algo)

IsEcdsaSig(exp) ==
    /\ IsSigVal(exp, ecdsa, 2)
    /\ IsLabeled(exp.v[2].v[2], key_r)
    /\ IsLabeled(exp.v[2].v[3], key_s)

IsRsaSig(exp) ==
    /\ IsSigVal(exp, rsa, 1)
    /\ IsLabeled(exp.v[2].v[2], key_s)

\* the data line sign has read, unescaped, without 'D ' and parsed
DataLineParsed ==
    LET u == _unescape(strip(clog[Len(clog)].data))
        p == split1(u.val, SPACE)
    IN  IF u.ok /\ p.found /\ p.head = D THEN _parse(p.tail) ELSE ParseFail

\* C15: for a data line that parses to its end, _parse_sig returns (r, s)
\* only for (sig-val (ecdsa (r <r>) (s <s>))) and (s,) only for
\* (sig-val (rsa (s <s>))); for every other expression it fails.
C15_SignatureShape ==
    (/\ spc \in {"done", "failed"}
     /\ clog # <<>>
     /\ clog[Len(clog)].at = 124
     /\ DataLineParsed.ok
     /\ DataLineParsed.rest = <<>>)
    => LET exp == DataLineParsed.val
       IN  IF IsEcdsaSig(exp)
           THEN /\ spc = "done"
                /\ sret.val = <<BigEndianSum(exp.v[2].v[2].v[2].v, 1),
                                BigEndianSum(exp.v[2].v[3].v[2].v, 1)>>
           ELSE IF IsRsaSig(exp)
           THEN /\ spc = "done"
                /\ sret.val = <<BigEndianSum(exp.v[2].v[2].v[2].v, 1)>>
           ELSE spc = "failed" /\ ~sret.ok

\* C16: a reply line with text after OK is accepted as the reply to RESET,
\* the first command, and aborts the handshake as the reply to any later
\* command.
C16_PrefixCheckOnlyForReset ==
    \A i \in 1..Len(clog) :
        (/\ clog[i].op = "recv"
         /\ clog[i].at # 124
         /\ clog[i].data \in {OK_extra, agent_greeting})
        => IF SendsUpTo(i) = 1
           THEN IF i = Len(clog) THEN spc = "send"
                ELSE clog[i + 1].op = "send"
           ELSE i = Len(clog) /\ spc = "failed" /\ ~sret.ok

\* 'OK extra text' was accepted for RESET and then ended the handshake as
\* the reply to PKSIGN
C16_Witness ==
    /\ Len(clog) = 12
    /\ clog[2].data = OK_extra
    /\ clog[12].op = "recv"
    /\ clog[12].data = OK_extra
    /\ spc = "failed"

\* the capability raised, or what it returned is not a point of 65 bytes
\* starting with 0x04
IsBadResult(result) ==
    \/ ~result.ok
    \/ Len(result.sig) # 65
    \/ result.sig[1] # 4

\* C11: when the capability fails or returns a malformed point the server
\* sends nothing for the PKDECRYPT command, and from then on it sends
\* nothing and never invokes the capability again.
C11_FailedCapabilityAborts ==
    [][/\ (\E result \in SignResults :
              IsBadResult(result) /\ SignReturn(result))
          => (log' = log /\ pc' = "crashed")
       /\ pc = "crashed" => (log' = log /\ pc' = "crashed")]_vars

\* the server has stopped right after the capability was invoked
C11_Witness ==
    /\ pc = "crashed"
    /\ log # <<>>
    /\ log[Len(log)].op = "sign"

\* 'OK pleased to see you\n'
GreetingText ==
    <<79, 75, 32, 112, 108, 101, 97, 115, 101, 100, 32, 116, 111, 32, 115,
      101, 101, 32, 121, 111, 117, 10>>

\* C18: the first thing the server does on every accepted connection is to
\* send the greeting line, before any read, and the greeting is sent nowhere
\* else.
C18_GreetingFirst ==
    \A i \in 1..Len(log) :
        /\ log[i].op = "accept"
           => /\ i < Len(log)
              /\ log[i + 1].op = "send"
              /\ log[i + 1].data = GreetingText
        /\ (log[i].op = "send" /\ log[i].data = GreetingText)
           => i > 1 /\ log[i - 1].op = "accept"
        /\ log[i].op = "recv"
           => \E j \in 1..(i - 1) :
                 /\ log[j].op = "send" /\ log[j].data = GreetingText
                 /\ \A k \in (j + 1)..(i - 1) : log[k].op # "accept"

\* two connections were greeted, and a line was read on each
C18_Witness ==
    /\ Cardinality({i \in 1..Len(log) : log[i].op = "accept"}) = 2
    /\ log[3].op = "recv"
    /\ log[Len(log)].op = "recv"
    /\ log[Len(log)].at = 171
    /\ log[Len(log) - 1].data = GreetingText

\* the commands read and the replies sent among the first i events
CommandsUpTo(i) ==
    Cardinality({j \in 1..i : IsRecv(j, 171) /\ log[j].data # <<>>})
IsReply(j) == log[j].op = "send" /\ log[j].at \notin {169, 182}
RepliesUpTo(i) == Cardinality({j \in 1..i : IsReply(j)})

\* C19: every reply answers the one command read last before it, no command
\* gets a second reply, a command is read or a connection accepted only
\* when every command before has its reply, and no send follows the
\* PKDECRYPT reply on its connection.
C19_OneReplyPerCommand ==
    \A i \in 1..Len(log) :
        /\ RepliesUpTo(i) <= CommandsUpTo(i)
        /\ (IsRecv(i, 171) \/ log[i].op = "accept")
           => RepliesUpTo(i - 1) = CommandsUpTo(i - 1)
        /\ IsReply(i)
           => /\ RepliesUpTo(i - 1) + 1 = CommandsUpTo(i)
              /\ i = Len(log) \/ log[i + 1].op # "send"
              /\ LET c == CHOOSE j \in 1..i :
                             /\ IsRecv(j, 171)
                             /\ \A k \in (j + 1)..i : ~IsRecv(k, 171)
                 IN  IF log[c].data = PKDECRYPT
                     THEN /\ log[i].at = 203
                          /\ i = Len(log) \/ log[i + 1].op = "accept"
                     ELSE log[i].data = DispatchReply(log[c].data)

\* the PKDECRYPT reply was sent, and on the next connection a command was
\* answered
C19_Witness ==
    \E i \in 1..Len(log) :
        /\ IsSend(i, 203)
        /\ Len(log) = i + 4
        /\ IsSend(i + 4, 206)

(***************************************************************************)
(* Properties of the two decodes (checked under SpecDecode).               *)
(***************************************************************************)
\* the S-expression the server finds after 'D ' in the line it read, with
\* what follows it
CiphertextParsed(line) ==
    LET p == split1(line, SPACE)
        u == _unescape(p.tail)
    IN  IF p.found /\ p.head = D /\ u.ok THEN _parse(u.val) ELSE ParseFail

\* C17: sign fails and returns nothing when bytes follow the S-expression of
\* the data line, while the server, for a ciphertext followed by bytes, goes
\* on and invokes the capability with the value of e.
C17_LeftoverOnlyFailsSign ==
    /\ (/\ clog # <<>>
        /\ clog[Len(clog)].at = 124
        /\ DataLineParsed.ok
        /\ DataLineParsed.rest # <<>>)
       => spc = "failed" /\ ~sret.ok
    /\ \A i \in 1..Len(log) :
          (/\ IsRecv(i, 183)
           /\ log[i].data = CipherLine(<<4, 0>>) \o <<120, 120>>
           /\ CiphertextParsed(log[i].data).ok
           /\ CiphertextParsed(log[i].data).rest # <<>>)
          => /\ i < Len(log)
             /\ log[i + 1].op = "sign"
             /\ IsStr(log[i + 1].data, <<4, 0>>)

\* both have happened: sign has refused a signature followed by 'x' and the
\* server has invoked the capability for a ciphertext followed by 'xx'
C17_Witness ==
    /\ spc = "failed"
    /\ clog # <<>>
    /\ clog[Len(clog)].at = 124
    /\ DataLineParsed.ok
    /\ DataLineParsed.rest = <<120>>
    /\ \E i \in 1..Len(log) :
          /\ IsRecv(i, 183)
          /\ CiphertextParsed(log[i].data).rest = <<120, 120>>
          /\ i < Len(log)
          /\ log[i + 1].op = "sign"

=============================================================================
